---- MODULE Spec2Model ----
(***************************************************************************)
(* SkillPlan: the schedule allocator generateSchedule and the page         *)
(* handlers that call it (src/src/app/page.tsx), as a state machine.       *)
(*                                                                         *)
(* Representation:                                                         *)
(*   - an "HH:MM" string is the pair <<hours, minutes>>, an "HH:mm:ss"     *)
(*     string the triple <<hours, minutes, seconds>>;                      *)
(*   - a calendar date ("yyyy-MM-dd") is its day number;                   *)
(*   - estHours and dailyHours are decimal numbers held in tenths of an    *)
(*     hour (the form accepts estHours >= 0.1), so estHours * 60 is        *)
(*     (estHours * 60) \div 10 minutes, exactly;                           *)
(*   - a skill's id is its position in the skills list (ids are unique);   *)
(*   - a Map keyed by skill id is a function on 1..Len(skills);            *)
(*   - uuidv4() is a fresh value: the counter uuid;                        *)
(*   - settings.lunch is <<>> for null and <<l>> for the Lunch object l;   *)
(*   - a block's optional skillId / skillName / completed are 0 / "" /     *)
(*     FALSE when absent.                                                  *)
(***************************************************************************)
EXTENDS Integers, Sequences, FiniteSets, TLC

VARIABLES
  skills,               \* generateSchedule's argument skills
  settings,             \* generateSchedule's argument settings
  pc,                   \* position in generateSchedule / the page
  remainingHours,       \* Map skill id -> remaining minutes
  totalMinutesPerSkill, \* Map skill id -> minutes given so far
  dates,                \* the date sequence
  dateIdx,              \* position of the for..of loop in dates
  dayIndex,             \* number of days pushed so far
  generatedSchedule,    \* days pushed so far
  blocks,               \* the current day's blocks, in push order
  dailyAllocation,      \* Map skill id -> minutes left of today's target
  totalAllocatedToday,  \* sum of today's targets still to hand out
  currentTime,          \* the block loop's cursor, minutes of day
  skillQueue,           \* today's round-robin queue (skill ids)
  queueIndex,           \* round-robin position
  uuid,                 \* next fresh block id
  result,               \* what generateSchedule returned or threw
  appState,             \* the page's stored state
  toast,                \* the last toast shown by the page
  events,               \* page handlers run so far
  calls,                \* calls of generateSchedule so far
  caller,               \* who generateSchedule returns to: "page" or "direct"
  lastCall              \* history: the arguments and outcome of the page's
                        \* last finished call of generateSchedule

pageVars == <<appState, toast, events, calls, caller, lastCall>>
coreVars == <<skills, settings, pc, remainingHours, totalMinutesPerSkill, dates,
              dateIdx, dayIndex, generatedSchedule, blocks, dailyAllocation,
              totalAllocatedToday, currentTime, skillQueue, queueIndex, uuid,
              result>>
dayVars == <<blocks, dailyAllocation, totalAllocatedToday, currentTime,
             skillQueue, queueIndex>>
vars == <<skills, settings, pc, remainingHours, totalMinutesPerSkill, dates,
          dateIdx, dayIndex, generatedSchedule, blocks, dailyAllocation,
          totalAllocatedToday, currentTime, skillQueue, queueIndex, uuid,
          result, pageVars>>

(***************************************************************************)
(* Bounds of the model.                                                    *)
(***************************************************************************)
MaxSkills == 2      \* longest skills list
MaxDate == 2        \* startDate and endDate range over 1..MaxDate
MaxEvents == 4      \* page handlers run in one behaviour

(***************************************************************************)
(* Pure helpers.                                                           *)
(***************************************************************************)
PRIORITY_WEIGHTS == [High |-> 3, Medium |-> 2, Low |-> 1]

timeToMinutes(time) == time[1] * 60 + time[2]

minutesToTime(minutes) == <<minutes \div 60, minutes % 60>>

\* roundTo5 of the rational num/den (den > 0): Math.round(x) is floor(x + 1/2).
roundTo5(num, den) == ((2 * num + 5 * den) \div (10 * den)) * 5

\* Mutant of getDatesInRange: the date pushed does not move on with the loop.
getDatesInRangeStuck(startDate, endDate) ==
  [k \in 1..(endDate - startDate + 1) |-> startDate]

RECURSIVE getDatesInRange(_, _)
getDatesInRange(startDate, endDate) ==
  IF startDate <= endDate
    THEN <<startDate>> \o getDatesInRange(startDate + 1, endDate)
    ELSE <<>>

EstMinutes(s) == (s.estHours * 60) \div 10

RECURSIVE SumSeq(_)
SumSeq(s) == IF s = <<>> THEN 0 ELSE Head(s) + SumSeq(Tail(s))

SumMap(m) == SumSeq([i \in 1..Len(skills) |-> m[i]])

Front(s) == SubSeq(s, 1, Len(s) - 1)

(***************************************************************************)
(* Inputs: the skills lists and the settings generateSchedule is called    *)
(* with.                                                                   *)
(***************************************************************************)
Priorities == {"High", "Low"}               \* the inputs leave out "Medium"
EstHoursSet == {1, 3, 10, 30}              \* 0.1 h, 0.3 h, 1 h, 3 h
SkillKinds == [priority : Priorities, estHours : EstHoursSet]
SkillNames == <<"Python", "Java", "SQL", "React">>
SkillLists ==
  { [i \in 1..Len(f) |-> [id |-> i, name |-> SkillNames[i],
                          priority |-> f[i].priority,
                          estHours |-> f[i].estHours]] :
    f \in UNION { [1..n -> SkillKinds] : n \in 0..MaxSkills } }

Dates == 1..MaxDate
EndTimes == {<<8, 30>>, <<9, 0>>, <<9, 58>>, <<13, 0>>, <<17, 0>>}
BlockPatterns == {<<50, 10>>, <<60, 0>>}   \* <<workBlockMins, breakMins>>
Lunches == {<<>>, <<[start |-> <<13, 0>>, duration |-> 60]>>,
            <<[start |-> <<9, 30>>, duration |-> 60]>>}
DailyHoursSet == {10, 40}                  \* 1 h, 4 h

MkSettings(mode, dailyHours, startDate, endDate, endTime, pattern, lunch) ==
  [mode |-> mode, dailyHours |-> dailyHours, startDate |-> startDate,
   endDate |-> endDate, startTime |-> <<9, 0>>, endTime |-> endTime,
   workBlockMins |-> pattern[1], breakMins |-> pattern[2], lunch |-> lunch]

DailySettings ==
  { MkSettings("Daily", dh, sd, 1, et, bp, l) :
      dh \in DailyHoursSet, sd \in {1, MaxDate}, et \in EndTimes,
      bp \in BlockPatterns, l \in Lunches }
MonthlySettings ==
  { MkSettings("Monthly", 10, sd, ed, et, bp, l) :
      sd \in Dates, ed \in Dates, et \in EndTimes,
      bp \in BlockPatterns, l \in Lunches }
\* A work block length that is not a multiple of 5, in a 58 minute window.
OddBlockSettings ==
  { MkSettings(mode, 10, 1, ed, <<9, 58>>, <<29, 1>>, <<>>) :
      mode \in {"Daily", "Monthly"}, ed \in Dates }
SettingsSet == DailySettings \cup MonthlySettings \cup OddBlockSettings

\* new Date(): the day generateSchedule is called on.
Today == 1

(***************************************************************************)
(* The page's default state (defaultAppState).                             *)
(***************************************************************************)
defaultAppState ==
  [skills |-> <<>>,
   settings |-> MkSettings("Daily", 60, Today, Today + 29, <<17, 0>>, <<50, 10>>,
                           <<[start |-> <<13, 0>>, duration |-> 60]>>),
   schedule |-> <<>>,       \* null
   summary |-> <<>>,        \* null
   live |-> [time |-> <<9, 45, 0>>, date |-> Today, currentStation |-> "Not Started"]]

NoResult == [kind |-> "none", schedule |-> <<>>, summary |-> <<>>]

\* No call of generateSchedule has finished yet.
NoCall == [skills |-> <<>>, settings |-> defaultAppState.settings,
           result |-> NoResult]

\* The state generateSchedule starts from when called with (sk, st).
CallState(sk, st) ==
  /\ skills = sk
  /\ settings = st
  /\ pc = "start"
  /\ remainingHours = <<>>
  /\ totalMinutesPerSkill = <<>>
  /\ dates = <<>>
  /\ dateIdx = 1
  /\ dayIndex = 0
  /\ generatedSchedule = <<>>
  /\ blocks = <<>>
  /\ dailyAllocation = <<>>
  /\ totalAllocatedToday = 0
  /\ currentTime = 0
  /\ skillQueue = <<>>
  /\ queueIndex = 0
  /\ uuid = 1
  /\ result = NoResult

\* generateSchedule called directly, on any skills list and settings.
DirectInit ==
  /\ \E sk \in SkillLists, st \in SettingsSet : CallState(sk, st)
  /\ appState = defaultAppState
  /\ toast = "none"
  /\ events = 0
  /\ calls = 1
  /\ caller = "direct"
  /\ lastCall = NoCall

(***************************************************************************)
(* generateSchedule, lines 783-799: the maps, the dates, the range check.  *)
(***************************************************************************)
DatesOf(st) ==
  IF st.mode = "Monthly" THEN getDatesInRange(st.startDate, st.endDate)
                         ELSE <<Today>>

\* Mutant of RangeInvalid: the mode test names the wrong mode.
RangeInvalidWrongMode == Len(DatesOf(settings)) = 0 /\ settings.mode = "Daily"

\* The condition of line 794.
RangeInvalid == Len(DatesOf(settings)) = 0 /\ settings.mode = "Monthly"

Throw(msg) ==
  /\ pc' = "threw"
  /\ result' = [kind |-> msg, schedule |-> <<>>, summary |-> <<>>]

ThrowInvalidRange ==
  /\ pc = "start"
  /\ RangeInvalid
  /\ remainingHours' = [i \in 1..Len(skills) |-> EstMinutes(skills[i])]
  /\ totalMinutesPerSkill' = [i \in 1..Len(skills) |-> 0]
  /\ dates' = DatesOf(settings)
  /\ Throw("InvalidRange")
  /\ UNCHANGED <<skills, settings, dateIdx, dayIndex, generatedSchedule, uuid,
                 pageVars>>
  /\ UNCHANGED dayVars

\* Mutant of Begin: dayIndex is kept from one call to the next.
BeginLeaksDayIndex ==
  /\ pc = "start"
  /\ ~RangeInvalid
  /\ remainingHours' = [i \in 1..Len(skills) |-> EstMinutes(skills[i])]
  /\ totalMinutesPerSkill' = [i \in 1..Len(skills) |-> 0]
  /\ dates' = DatesOf(settings)
  /\ generatedSchedule' = <<>>
  /\ dateIdx' = 1
  /\ pc' = "for"
  /\ UNCHANGED <<skills, settings, dayIndex, uuid, result, pageVars>>
  /\ UNCHANGED dayVars

\* Lines 783-799: the maps, the dates and the loop's counters are set up.
Begin ==
  /\ pc = "start"
  /\ ~RangeInvalid
  /\ remainingHours' = [i \in 1..Len(skills) |-> EstMinutes(skills[i])]
  /\ totalMinutesPerSkill' = [i \in 1..Len(skills) |-> 0]
  /\ dates' = DatesOf(settings)
  /\ generatedSchedule' = <<>>
  /\ dayIndex' = 0
  /\ dateIdx' = 1
  /\ pc' = "for"
  /\ UNCHANGED <<skills, settings, uuid, result, pageVars>>
  /\ UNCHANGED dayVars

(***************************************************************************)
(* The date loop's head, lines 801-839.                                    *)
(***************************************************************************)
windowStart == timeToMinutes(settings.startTime)
windowEnd == timeToMinutes(settings.endTime)

\* totalWindowMinutes after the lunch deduction (lines 806-811).
totalWindowMinutes ==
  (windowEnd - windowStart)
    - (IF settings.lunch # <<>> THEN settings.lunch[1].duration ELSE 0)

allocatableTimeForDay ==
  IF settings.mode = "Daily" THEN (settings.dailyHours * 60) \div 10
                             ELSE totalWindowMinutes

\* skills.filter(remaining > 0), as skill ids in input order.
activeSkills == SelectSeq([i \in 1..Len(skills) |-> i],
                          LAMBDA i : remainingHours[i] > 0)

\* Mutant of Weight: the priority is ignored.
WeightFlat(i) == 1

Weight(i) == PRIORITY_WEIGHTS[skills[i].priority]

totalWeight == SumSeq([k \in 1..Len(activeSkills) |-> Weight(activeSkills[k])])

\* Mutant of DailyTarget: the Math.min with the remaining minutes is missing.
DailyTargetUncapped(i) == roundTo5(allocatableTimeForDay * Weight(i), totalWeight)

\* Mutant of DailyTarget: Math.max in place of Math.min.
DailyTargetMax(i) ==
  IF allocatableTimeForDay * Weight(i) >= remainingHours[i] * totalWeight
    THEN roundTo5(allocatableTimeForDay * Weight(i), totalWeight)
    ELSE roundTo5(remainingHours[i], 1)

\* roundTo5(Math.min(allocatable * weight / totalWeight, remaining)), line 824.
DailyTarget(i) ==
  IF allocatableTimeForDay * Weight(i) <= remainingHours[i] * totalWeight
    THEN roundTo5(allocatableTimeForDay * Weight(i), totalWeight)
    ELSE roundTo5(remainingHours[i], 1)

\* Array.prototype.sort is stable: s is inserted after every element that
\* does not sort after it (descending weight).
RECURSIVE InsertSkill(_, _)
InsertSkill(q, i) ==
  IF q = <<>> THEN <<i>>
  ELSE IF Weight(q[Len(q)]) >= Weight(i) THEN Append(q, i)
  ELSE Append(InsertSkill(Front(q), i), q[Len(q)])

RECURSIVE SortSkills(_)
SortSkills(s) ==
  IF s = <<>> THEN <<>> ELSE InsertSkill(SortSkills(Front(s)), s[Len(s)])

\* skillQueue.push(skillQueue.shift())
RotateLeft(q) == IF q = <<>> THEN q ELSE Append(Tail(q), Head(q))

InLoopHead == pc = "for" /\ dateIdx <= Len(dates)

\* Mutant of WindowInvalid: < for <=.
WindowInvalidStrict == windowEnd - windowStart < 0

\* The condition of line 807.
WindowInvalid == windowEnd - windowStart <= 0

ThrowInvalidWindow ==
  /\ InLoopHead
  /\ WindowInvalid
  /\ Throw("InvalidWindow")
  /\ blocks' = <<>>
  /\ UNCHANGED <<skills, settings, remainingHours, totalMinutesPerSkill, dates,
                 dateIdx, dayIndex, generatedSchedule, dailyAllocation,
                 totalAllocatedToday, currentTime, skillQueue, queueIndex, uuid,
                 pageVars>>

\* "continue" at line 814 (line 820's totalWeight === 0 cannot happen with a
\* non-empty activeSkills, and is kept in the guard as the code has it).
SkipsDay ==
  \/ allocatableTimeForDay <= 0
  \/ (Len(activeSkills) # 0 /\ totalWeight = 0)

ContinueDate ==
  /\ InLoopHead
  /\ ~WindowInvalid
  /\ SkipsDay
  /\ blocks' = <<>>
  /\ dateIdx' = dateIdx + 1
  /\ UNCHANGED <<skills, settings, pc, remainingHours, totalMinutesPerSkill,
                 dates, dayIndex, generatedSchedule, dailyAllocation,
                 totalAllocatedToday, currentTime, skillQueue, queueIndex, uuid,
                 result, pageVars>>

\* Mutant of BreakDates: "continue" in place of "break".
BreakDatesSkips ==
  /\ InLoopHead
  /\ ~WindowInvalid
  /\ allocatableTimeForDay > 0
  /\ Len(activeSkills) = 0
  /\ blocks' = <<>>
  /\ dateIdx' = dateIdx + 1
  /\ UNCHANGED <<skills, settings, pc, remainingHours, totalMinutesPerSkill, dates,
                 dayIndex, generatedSchedule, dailyAllocation,
                 totalAllocatedToday, currentTime, skillQueue, queueIndex, uuid,
                 result, pageVars>>

\* "break" at line 817.
BreakDates ==
  /\ InLoopHead
  /\ ~WindowInvalid
  /\ allocatableTimeForDay > 0
  /\ Len(activeSkills) = 0
  /\ blocks' = <<>>
  /\ pc' = "summary"
  /\ UNCHANGED <<skills, settings, remainingHours, totalMinutesPerSkill, dates,
                 dateIdx, dayIndex, generatedSchedule, dailyAllocation,
                 totalAllocatedToday, currentTime, skillQueue, queueIndex, uuid,
                 result, pageVars>>

BeginDay ==
  /\ InLoopHead
  /\ ~WindowInvalid
  /\ ~SkipsDay
  /\ Len(activeSkills) # 0
  /\ blocks' = <<>>
  /\ dailyAllocation' =
       [i \in 1..Len(skills) |-> IF remainingHours[i] > 0 THEN DailyTarget(i) ELSE 0]
  /\ totalAllocatedToday' =
       SumSeq([k \in 1..Len(activeSkills) |-> DailyTarget(activeSkills[k])])
  /\ currentTime' = windowStart
  /\ skillQueue' = IF dayIndex > 0 THEN RotateLeft(SortSkills(activeSkills))
                                   ELSE SortSkills(activeSkills)
  /\ queueIndex' = 0
  /\ pc' = "while"
  /\ UNCHANGED <<skills, settings, remainingHours, totalMinutesPerSkill, dates,
                 dateIdx, dayIndex, generatedSchedule, uuid, result, pageVars>>

\* The for..of loop has run out of dates.
EndDates ==
  /\ pc = "for"
  /\ dateIdx > Len(dates)
  /\ pc' = "summary"
  /\ UNCHANGED <<skills, settings, remainingHours, totalMinutesPerSkill, dates,
                 dateIdx, dayIndex, generatedSchedule, uuid, result, pageVars>>
  /\ UNCHANGED dayVars

(***************************************************************************)
(* The block loop, lines 841-894.                                          *)
(***************************************************************************)
Block(id, start, end, type, minutes) ==
  [id |-> id, start |-> minutesToTime(start), end |-> minutesToTime(end),
   type |-> type, minutes |-> minutes, skillId |-> 0, skillName |-> "",
   completed |-> FALSE]

\* A work block of the skill at position i of skills.
WorkBlockOf(id, start, end, minutes, i) ==
  [id |-> id, start |-> minutesToTime(start), end |-> minutesToTime(end),
   type |-> "work", minutes |-> minutes, skillId |-> skills[i].id,
   skillName |-> skills[i].name, completed |-> FALSE]

hasLunch == settings.lunch # <<>>
lunchStart == timeToMinutes(settings.lunch[1].start)
lunchEnd == lunchStart + settings.lunch[1].duration

\* The while condition, line 841.
LoopCondition == currentTime < windowEnd /\ totalAllocatedToday > 0

\* The condition of line 845.
InLunch == hasLunch /\ currentTime >= lunchStart /\ currentTime < lunchEnd

\* Mutant of skill: queueIndex is not used, the queue's first skill is taken.
skillAtHead == skillQueue[1]

\* const skill = skillQueue[queueIndex % skillQueue.length] (0-based).
skill == skillQueue[(queueIndex % Len(skillQueue)) + 1]
skillTimeLeft == dailyAllocation[skill]
\* Mutant of blockDuration: the Math.min with skillTimeLeft is missing.
blockDurationFull == settings.workBlockMins

\* Line 870.
blockDuration ==
  IF settings.workBlockMins <= skillTimeLeft THEN settings.workBlockMins
                                             ELSE skillTimeLeft
remainingWindowTime == roundTo5(windowEnd - currentTime, 1)

\* Lines 842-858.
LunchStep ==
  /\ pc = "while"
  /\ LoopCondition
  /\ InLunch
  /\ IF blocks = <<>> \/ blocks[Len(blocks)].type # "lunch"
       THEN /\ blocks' = Append(blocks, Block(uuid, lunchStart, lunchEnd, "lunch",
                                              settings.lunch[1].duration))
            /\ uuid' = uuid + 1
       ELSE UNCHANGED <<blocks, uuid>>
  /\ currentTime' = lunchEnd
  /\ UNCHANGED <<skills, settings, pc, remainingHours, totalMinutesPerSkill,
                 dates, dateIdx, dayIndex, generatedSchedule, dailyAllocation,
                 totalAllocatedToday, skillQueue, queueIndex, result, pageVars>>

\* Mutant of SkipSkill: queueIndex++ (line 864) is missing.
SkipSkillStays ==
  /\ pc = "while"
  /\ LoopCondition
  /\ ~InLunch
  /\ skillTimeLeft <= 0
  /\ pc' = IF \A i \in 1..Len(skills) : dailyAllocation[i] <= 0
             THEN "endday" ELSE "while"
  /\ UNCHANGED <<skills, settings, remainingHours, totalMinutesPerSkill, dates,
                 dateIdx, dayIndex, generatedSchedule, blocks, dailyAllocation,
                 totalAllocatedToday, currentTime, skillQueue, queueIndex, uuid,
                 result, pageVars>>

\* Lines 860-868: the skill at the head of the round robin has nothing left
\* today.
SkipSkill ==
  /\ pc = "while"
  /\ LoopCondition
  /\ ~InLunch
  /\ skillTimeLeft <= 0
  /\ queueIndex' = queueIndex + 1
  /\ pc' = IF \A i \in 1..Len(skills) : dailyAllocation[i] <= 0
             THEN "endday" ELSE "while"
  /\ UNCHANGED <<skills, settings, remainingHours, totalMinutesPerSkill, dates,
                 dateIdx, dayIndex, generatedSchedule, blocks, dailyAllocation,
                 totalAllocatedToday, currentTime, skillQueue, uuid, result,
                 pageVars>>

\* Mutant of Bookkeep: remainingHours is not updated (line 888 is missing).
BookkeepKeepsRemaining(minutes) ==
  /\ dailyAllocation' = [dailyAllocation EXCEPT ![skill] = skillTimeLeft - minutes]
  /\ totalAllocatedToday' = totalAllocatedToday - minutes
  /\ totalMinutesPerSkill' =
       [totalMinutesPerSkill EXCEPT ![skill] = totalMinutesPerSkill[skill] + minutes]
  /\ UNCHANGED remainingHours

\* Mutant of Bookkeep: the running total is not updated (line 887 is missing).
BookkeepKeepsTotal(minutes) ==
  /\ dailyAllocation' = [dailyAllocation EXCEPT ![skill] = skillTimeLeft - minutes]
  /\ totalAllocatedToday' = totalAllocatedToday - minutes
  /\ remainingHours' = [remainingHours EXCEPT ![skill] = remainingHours[skill] - minutes]
  /\ UNCHANGED totalMinutesPerSkill

\* The four updates that follow every pushed work block of `minutes`.
Bookkeep(minutes) ==
  /\ dailyAllocation' = [dailyAllocation EXCEPT ![skill] = skillTimeLeft - minutes]
  /\ totalAllocatedToday' = totalAllocatedToday - minutes
  /\ totalMinutesPerSkill' =
       [totalMinutesPerSkill EXCEPT ![skill] = totalMinutesPerSkill[skill] + minutes]
  /\ remainingHours' = [remainingHours EXCEPT ![skill] = remainingHours[skill] - minutes]

\* Lines 870-881: the block does not fit before windowEnd.
ClipBlock ==
  /\ pc = "while"
  /\ LoopCondition
  /\ ~InLunch
  /\ skillTimeLeft > 0
  /\ currentTime + blockDuration > windowEnd
  /\ queueIndex' = queueIndex + 1
  /\ IF remainingWindowTime > 0
       THEN /\ blocks' = Append(blocks, WorkBlockOf(uuid, currentTime,
                                                    currentTime + remainingWindowTime,
                                                    remainingWindowTime, skill))
            /\ uuid' = uuid + 1
            /\ Bookkeep(remainingWindowTime)
       ELSE UNCHANGED <<blocks, uuid, dailyAllocation, totalAllocatedToday,
                        totalMinutesPerSkill, remainingHours>>
  /\ pc' = "endday"
  /\ UNCHANGED <<skills, settings, dates, dateIdx, dayIndex, generatedSchedule,
                 currentTime, skillQueue, result, pageVars>>

\* Mutant of WorkBlock: the break does not depend on totalAllocatedToday.
WorkBlockAlwaysBreaks ==
  /\ pc = "while"
  /\ LoopCondition
  /\ ~InLunch
  /\ skillTimeLeft > 0
  /\ currentTime + blockDuration <= windowEnd
  /\ queueIndex' = queueIndex + 1
  /\ Bookkeep(blockDuration)
  /\ LET work == WorkBlockOf(uuid, currentTime, currentTime + blockDuration,
                             blockDuration, skill)
         afterWork == currentTime + blockDuration
     IN IF /\ settings.breakMins > 0
           /\ afterWork + settings.breakMins <= windowEnd
          THEN /\ blocks' = blocks \o
                    <<work, Block(uuid + 1, afterWork, afterWork + settings.breakMins,
                                  "break", settings.breakMins)>>
               /\ uuid' = uuid + 2
               /\ currentTime' = afterWork + settings.breakMins
          ELSE /\ blocks' = Append(blocks, work)
               /\ uuid' = uuid + 1
               /\ currentTime' = afterWork
  /\ UNCHANGED <<skills, settings, pc, dates, dateIdx, dayIndex,
                 generatedSchedule, skillQueue, result, pageVars>>

\* Lines 883-893: a full work block, and the break after it.
WorkBlock ==
  /\ pc = "while"
  /\ LoopCondition
  /\ ~InLunch
  /\ skillTimeLeft > 0
  /\ currentTime + blockDuration <= windowEnd
  /\ queueIndex' = queueIndex + 1
  /\ Bookkeep(blockDuration)
  /\ LET work == WorkBlockOf(uuid, currentTime, currentTime + blockDuration,
                             blockDuration, skill)
         afterWork == currentTime + blockDuration
     IN IF /\ settings.breakMins > 0
           /\ afterWork + settings.breakMins <= windowEnd
           /\ totalAllocatedToday - blockDuration > 0
          THEN /\ blocks' = blocks \o
                    <<work, Block(uuid + 1, afterWork, afterWork + settings.breakMins,
                                  "break", settings.breakMins)>>
               /\ uuid' = uuid + 2
               /\ currentTime' = afterWork + settings.breakMins
          ELSE /\ blocks' = Append(blocks, work)
               /\ uuid' = uuid + 1
               /\ currentTime' = afterWork
  /\ UNCHANGED <<skills, settings, pc, dates, dateIdx, dayIndex,
                 generatedSchedule, skillQueue, result, pageVars>>

(***************************************************************************)
(* The end of a day, lines 896-936: lunch backfill, sort, buffer fill.     *)
(***************************************************************************)
HasLunchBlock(bs) == \E k \in 1..Len(bs) : bs[k].type = "lunch"

\* Mutant of NeedsBackfill: the test for an earlier lunch block is missing.
NeedsBackfillUnchecked(bs) ==
  hasLunch /\ lunchStart >= windowStart /\ lunchStart < windowEnd

\* The conditions of lines 897-899.
NeedsBackfill(bs) ==
  /\ hasLunch
  /\ ~HasLunchBlock(bs)
  /\ lunchStart >= windowStart /\ lunchStart < windowEnd

\* blocks.sort by start time (stable): b goes after every block that does not
\* start later.
RECURSIVE InsertBlock(_, _)
InsertBlock(bs, b) ==
  IF bs = <<>> THEN <<b>>
  ELSE IF timeToMinutes(bs[Len(bs)].start) <= timeToMinutes(b.start) THEN Append(bs, b)
  ELSE Append(InsertBlock(Front(bs), b), bs[Len(bs)])

\* The last block is inserted into the sorted sequence of the blocks before it.
RECURSIVE SortBlocks(_)
SortBlocks(bs) ==
  IF bs = <<>> THEN <<>>
  ELSE CHOOSE sorted \in { InsertBlock(front, bs[Len(bs)]) :
                             front \in {SortBlocks(Front(bs))} } : TRUE

\* Lines 913-925: the forEach over the sorted blocks, from block k on, with
\* the blocks pushed so far, lastBlockEnd and the next fresh id.
\* Yields <<finalBlocks, lastBlockEnd, next id>>.
RECURSIVE FillGaps(_, _, _, _, _)
FillGaps(bs, k, finalBlocks, lastBlockEnd, id) ==
  IF k > Len(bs) THEN <<finalBlocks, lastBlockEnd, id>>
  ELSE LET blockStart == timeToMinutes(bs[k].start)
           gap == blockStart > lastBlockEnd
       IN FillGaps(bs, k + 1,
                   IF gap
                     THEN finalBlocks \o
                            <<Block(id, lastBlockEnd, blockStart, "buffer",
                                    blockStart - lastBlockEnd), bs[k]>>
                     ELSE Append(finalBlocks, bs[k]),
                   timeToMinutes(bs[k].end),
                   IF gap THEN id + 1 ELSE id)

\* Mutant of TrailingBuffer: no buffer is added after the last block.
TrailingBufferNone(filled) == <<filled[1], filled[3]>>

\* Lines 927-932: the trailing buffer. Yields <<finalBlocks, next id>>.
TrailingBuffer(filled) ==
  IF filled[2] < windowEnd
    THEN <<Append(filled[1], Block(filled[3], filled[2], windowEnd, "buffer",
                                   windowEnd - filled[2])),
           filled[3] + 1>>
    ELSE <<filled[1], filled[3]>>

\* Lines 896-932 on the loop's blocks: the lunch backfill, then the sort,
\* then the forEach, then the trailing buffer, each on the value the step
\* before it has produced. Yields <<finalBlocks, next id>>.
FinishBlocks(bs, id) ==
  LET withLunch ==
        IF NeedsBackfill(bs)
          THEN Append(bs, Block(id, lunchStart, lunchEnd, "lunch",
                                settings.lunch[1].duration))
          ELSE bs
      id2 == IF NeedsBackfill(bs) THEN id + 1 ELSE id
  IN CHOOSE fin \in
       { TrailingBuffer(filled) :
           filled \in { FillGaps(sorted, 1, <<>>, windowStart, id2) :
                          sorted \in { SortBlocks(pushed) :
                                         pushed \in {withLunch} } } } : TRUE

\* The while loop is over: its condition is false, or a break left it.
DayLoopOver == pc = "endday" \/ (pc = "while" /\ ~LoopCondition)

EndDay ==
  /\ DayLoopOver
  /\ LET fin == FinishBlocks(blocks, uuid)
     IN /\ generatedSchedule' =
             Append(generatedSchedule, [date |-> dates[dateIdx], blocks |-> fin[1]])
        /\ uuid' = fin[2]
  /\ dayIndex' = dayIndex + 1
  /\ dateIdx' = dateIdx + 1
  /\ pc' = "for"
  /\ UNCHANGED <<skills, settings, remainingHours, totalMinutesPerSkill, dates,
                 result, pageVars>>
  /\ UNCHANGED dayVars

(***************************************************************************)
(* The summary and the empty check, lines 939-952.                         *)
(***************************************************************************)
grandTotalMinutes == SumMap(totalMinutesPerSkill)

\* Mutant of summaryOf: the entries come in the queue's order, by descending
\* weight, instead of the input order.
summaryOfByWeight ==
  LET order == SortSkills([i \in 1..Len(skills) |-> i])
  IN [k \in 1..Len(skills) |->
        [skillId |-> skills[order[k]].id,
         skillName |-> skills[order[k]].name,
         minutes |-> totalMinutesPerSkill[order[k]],
         percent |-> IF grandTotalMinutes > 0
                       THEN <<totalMinutesPerSkill[order[k]] * 100, grandTotalMinutes>>
                       ELSE <<0, 1>>]]

\* percent is the exact quotient minutes * 100 / grandTotalMinutes, held as
\* <<numerator, denominator>>.
summaryOf ==
  [i \in 1..Len(skills) |->
     [skillId |-> skills[i].id,
      skillName |-> skills[i].name,
      minutes |-> totalMinutesPerSkill[i],
      percent |-> IF grandTotalMinutes > 0
                    THEN <<totalMinutesPerSkill[i] * 100, grandTotalMinutes>>
                    ELSE <<0, 1>>]]

\* Mutant of IsEmptySchedule: the empty check is missing.
IsEmptyScheduleNever == FALSE

\* The condition of line 948.
IsEmptySchedule == Len(generatedSchedule) = 0

ThrowEmpty ==
  /\ pc = "summary"
  /\ IsEmptySchedule
  /\ Throw("EmptySchedule")
  /\ UNCHANGED <<skills, settings, remainingHours, totalMinutesPerSkill, dates,
                 dateIdx, dayIndex, generatedSchedule, uuid, pageVars>>
  /\ UNCHANGED dayVars

Return ==
  /\ pc = "summary"
  /\ ~IsEmptySchedule
  /\ pc' = "returned"
  /\ result' = [kind |-> "ok", schedule |-> generatedSchedule, summary |-> summaryOf]
  /\ UNCHANGED <<skills, settings, remainingHours, totalMinutesPerSkill, dates,
                 dateIdx, dayIndex, generatedSchedule, uuid, pageVars>>
  /\ UNCHANGED dayVars

generateScheduleStep ==
  \/ ThrowInvalidRange
  \/ Begin
  \/ ThrowInvalidWindow
  \/ ContinueDate
  \/ BreakDates
  \/ BeginDay
  \/ EndDates
  \/ LunchStep
  \/ SkipSkill
  \/ ClipBlock
  \/ WorkBlock
  \/ EndDay
  \/ ThrowEmpty
  \/ Return

(***************************************************************************)
(* The page: SkillPlanPage's handlers, lines 198-237.  JavaScript runs a    *)
(* handler to its end before the next one starts, so the handlers are      *)
(* enabled only while no call of generateSchedule is in progress.          *)
(***************************************************************************)
\* What the skill form submits (the form's resolver has accepted it).
SkillFormValues ==
  { [name |-> "Python", priority |-> "High", estHours |-> 10],
    [name |-> "python", priority |-> "Low", estHours |-> 30],
    [name |-> "SQL", priority |-> "Low", estHours |-> 3] }

\* String.prototype.toLowerCase on the names above.
toLowerCase(name) ==
  CASE name = "Python" -> "python"
    [] name = "SQL" -> "sql"
    [] OTHER -> name

\* settingsSchema's superRefine, lines 48-63.
settingsSchema(v) ==
  /\ ~(v.mode = "Daily" /\ v.dailyHours <= 0)
  /\ v.mode = "Monthly" => ~(v.startDate > v.endDate)
  /\ v.workBlockMins >= 25 /\ v.breakMins >= 0
  /\ v.lunchEnabled => v.lunchDuration >= 1

\* What the settings form submits to handleGenerate.
SettingsFormValues ==
  { v \in [mode : {"Daily", "Monthly"}, dailyHours : {10},
           startDate : {1}, endDate : {1, 2},
           startTime : {<<9, 0>>}, endTime : {<<9, 0>>, <<9, 58>>, <<17, 0>>},
           workBlockMins : {50}, breakMins : {10},
           lunchEnabled : BOOLEAN, lunchStart : {<<13, 0>>},
           lunchDuration : {60}] :
      settingsSchema(v) /\ (v.endDate = 2 <=> v.mode = "Monthly") }

\* Lines 223-226.
currentSettings(values) ==
  [mode |-> values.mode, dailyHours |-> values.dailyHours,
   startDate |-> values.startDate, endDate |-> values.endDate,
   startTime |-> values.startTime, endTime |-> values.endTime,
   workBlockMins |-> values.workBlockMins, breakMins |-> values.breakMins,
   lunch |-> IF values.lunchEnabled
               THEN <<[start |-> values.lunchStart, duration |-> values.lunchDuration]>>
               ELSE <<>>]

Idle == pc = "idle" /\ events < MaxEvents

\* Lines 198-211.
addSkill(values) ==
  /\ Idle
  /\ Len(appState.skills) < MaxSkills
  /\ LET newSkill == [id |-> uuid, name |-> values.name,
                      priority |-> values.priority, estHours |-> values.estHours]
     IN IF \E k \in 1..Len(appState.skills) :
             toLowerCase(appState.skills[k].name) = toLowerCase(newSkill.name)
          THEN /\ toast' = "Duplicate Skill"
               /\ UNCHANGED appState
          ELSE /\ appState' = [appState EXCEPT !.skills = Append(@, newSkill)]
               /\ UNCHANGED toast
  /\ uuid' = uuid + 1
  /\ events' = events + 1
  /\ UNCHANGED <<skills, settings, pc, remainingHours, totalMinutesPerSkill, dates,
                 dateIdx, dayIndex, generatedSchedule, result, calls, caller,
                 lastCall>>
  /\ UNCHANGED dayVars

\* Lines 213-215.
removeSkill(id) ==
  /\ Idle
  /\ appState' = [appState EXCEPT !.skills = SelectSeq(@, LAMBDA sk : sk.id # id)]
  /\ events' = events + 1
  /\ UNCHANGED <<skills, settings, pc, remainingHours, totalMinutesPerSkill, dates,
                 dateIdx, dayIndex, generatedSchedule, uuid, result, toast, calls,
                 caller, lastCall>>
  /\ UNCHANGED dayVars

\* Lines 217-221: no skills, no call.
handleGenerateNoSkills ==
  /\ Idle
  /\ Len(appState.skills) = 0
  /\ toast' = "No Skills"
  /\ events' = events + 1
  /\ UNCHANGED <<coreVars, appState, calls, caller, lastCall>>

\* Line 229: generateSchedule(appState.skills, currentSettings(values)) is
\* entered.  dayIndex is declared at line 799 (Begin); until then its value
\* is immaterial.
EnterGenerate(values) ==
  /\ Idle
  /\ skills' = appState.skills
  /\ settings' = currentSettings(values)
  /\ pc' = "start"
  /\ remainingHours' = <<>>
  /\ totalMinutesPerSkill' = <<>>
  /\ dates' = <<>>
  /\ dateIdx' = 1
  /\ generatedSchedule' = <<>>
  /\ blocks' = <<>>
  /\ dailyAllocation' = <<>>
  /\ totalAllocatedToday' = 0
  /\ currentTime' = 0
  /\ skillQueue' = <<>>
  /\ queueIndex' = 0
  /\ result' = NoResult
  /\ events' = events + 1
  /\ calls' = calls + 1
  /\ caller' = "page"
  /\ UNCHANGED <<dayIndex, uuid, appState, toast, lastCall>>

\* Mutant of handleGenerateCall: the test for an empty skills list is missing.
handleGenerateCallUnguarded(values) == EnterGenerate(values)

\* Lines 217-229 with skills: the call is made.
handleGenerateCall(values) == Len(appState.skills) # 0 /\ EnterGenerate(values)

\* Lines 229-231: the call returned.
handleGenerateStore ==
  /\ pc = "returned" /\ caller = "page"
  /\ appState' = [appState EXCEPT !.settings = settings,
                                  !.schedule = result.schedule,
                                  !.summary = result.summary]
  /\ toast' = "Schedule Generated"
  /\ pc' = "idle"
  /\ lastCall' = [skills |-> skills, settings |-> settings, result |-> result]
  /\ UNCHANGED <<skills, settings, remainingHours, totalMinutesPerSkill, dates,
                 dateIdx, dayIndex, generatedSchedule, uuid, result, events, calls,
                 caller>>
  /\ UNCHANGED dayVars

\* Mutant of handleGenerateCatch: the rejected settings are stored.
handleGenerateCatchStores ==
  /\ pc = "threw" /\ caller = "page"
  /\ toast' = "Generation Failed"
  /\ pc' = "idle"
  /\ lastCall' = [skills |-> skills, settings |-> settings, result |-> result]
  /\ appState' = [appState EXCEPT !.settings = settings]
  /\ UNCHANGED <<skills, settings, remainingHours, totalMinutesPerSkill, dates,
                 dateIdx, dayIndex, generatedSchedule, uuid, result,
                 events, calls, caller>>
  /\ UNCHANGED dayVars

\* Lines 232-236: the call threw.
handleGenerateCatch ==
  /\ pc = "threw" /\ caller = "page"
  /\ toast' = "Generation Failed"
  /\ pc' = "idle"
  /\ lastCall' = [skills |-> skills, settings |-> settings, result |-> result]
  /\ UNCHANGED <<skills, settings, remainingHours, totalMinutesPerSkill, dates,
                 dateIdx, dayIndex, generatedSchedule, uuid, result, appState,
                 events, calls, caller>>
  /\ UNCHANGED dayVars

(***************************************************************************)
(* The timer effect, lines 112-167, and toggleTaskCompletion, lines        *)
(* 268-287.  liveTime is "HH:mm:ss" as <<h, m, s>>, block times are        *)
(* "HH:MM" as <<h, m>>, and the code compares them as strings.             *)
(***************************************************************************)
\* a < b for strings of zero-padded two-digit fields: at the first field
\* that differs, or a is a proper prefix of b.
StringLess(a, b) ==
  \/ \E k \in 1..Len(a) :
       /\ k <= Len(b)
       /\ a[k] < b[k]
       /\ \A j \in 1..(k - 1) : a[j] = b[j]
  \/ Len(a) < Len(b) /\ \A j \in 1..Len(a) : a[j] = b[j]

StringLeq(a, b) == a = b \/ StringLess(a, b)

\* The times and dates the timer fires at.
LiveTimes == {<<9, 45, 0>>}
LiveDates == {Today}

\* block.type.charAt(0).toUpperCase() + block.type.slice(1)
Capitalize(type) ==
  CASE type = "work" -> "Work"
    [] type = "break" -> "Break"
    [] type = "lunch" -> "Lunch"
    [] type = "buffer" -> "Buffer"

\* Lines 124-135 and 154-156.
currentStationAt(prev, liveTime, liveDate) ==
  LET today == SelectSeq(prev.schedule, LAMBDA day : day.date = liveDate)
      here == IF today = <<>> THEN <<>>
              ELSE SelectSeq(today[1].blocks,
                             LAMBDA block : /\ StringLeq(block.start, liveTime)
                                            /\ StringLeq(liveTime, block.end))
  IN IF StringLess(liveTime, prev.settings.startTime) THEN "Not Started"
     ELSE IF here = <<>> THEN "Day Ended"
     ELSE IF here[1].skillName # "" THEN here[1].skillName
     ELSE Capitalize(here[1].type)

\* Mutant of PastDue: only the first tick that finds a schedule marks its
\* blocks, so a block set back by the user afterwards stays not completed.
PastDueOnce(block, liveTime) ==
  /\ block.type = "work" /\ ~block.completed /\ StringLeq(block.end, liveTime)
  /\ appState.live.currentStation = "Not Started"

\* The condition of line 140.
PastDue(block, liveTime) ==
  block.type = "work" /\ ~block.completed /\ StringLeq(block.end, liveTime)

\* Lines 137-152 and 162: the schedule after the tick.
newScheduleAt(prev, liveTime, liveDate) ==
  LET marked(day) ==
        [day EXCEPT !.blocks =
           [k \in 1..Len(day.blocks) |->
              IF PastDue(day.blocks[k], liveTime)
                THEN [day.blocks[k] EXCEPT !.completed = TRUE]
                ELSE day.blocks[k]]]
  IN [d \in 1..Len(prev.schedule) |->
        IF prev.schedule[d].date = liveDate THEN marked(prev.schedule[d])
                                            ELSE prev.schedule[d]]

\* One run of the setInterval callback. The clock does not go back.
tick(liveTime, liveDate) ==
  /\ pc = "idle"
  /\ StringLeq(<<appState.live.date>> \o appState.live.time, <<liveDate>> \o liveTime)
  /\ appState' =
       IF appState.schedule = <<>>
         THEN [appState EXCEPT !.live = [time |-> liveTime, date |-> liveDate,
                                         currentStation |-> "Not Started"]]
         ELSE [appState EXCEPT
                 !.live = [time |-> liveTime, date |-> liveDate,
                           currentStation |-> currentStationAt(appState, liveTime, liveDate)],
                 !.schedule = newScheduleAt(appState, liveTime, liveDate)]
  /\ UNCHANGED <<coreVars, toast, events, calls, caller, lastCall>>

\* Lines 268-287, called from the checkbox of a work block of the schedule.
toggleTaskCompletion(dayDate, blockId) ==
  /\ Idle
  /\ appState.schedule # <<>>
  /\ LET toggled(day) ==
           [day EXCEPT !.blocks =
              [k \in 1..Len(day.blocks) |->
                 IF day.blocks[k].id = blockId /\ day.blocks[k].type = "work"
                   THEN [day.blocks[k] EXCEPT !.completed = ~day.blocks[k].completed]
                   ELSE day.blocks[k]]]
     IN appState' =
          [appState EXCEPT !.schedule =
             [d \in 1..Len(appState.schedule) |->
                IF appState.schedule[d].date = dayDate
                  THEN toggled(appState.schedule[d])
                  ELSE appState.schedule[d]]]
  /\ events' = events + 1
  /\ UNCHANGED <<coreVars, toast, calls, caller, lastCall>>

\* The page shows one checkbox per work block of the stored schedule; the
\* ones clicked here are those of the first work block of each day.
Checkboxes ==
  UNION { { <<appState.schedule[d].date, appState.schedule[d].blocks[k].id>> :
              k \in { j \in 1..Len(appState.schedule[d].blocks) :
                        /\ appState.schedule[d].blocks[j].type = "work"
                        /\ \A i \in 1..(j - 1) :
                             appState.schedule[d].blocks[i].type # "work" } } :
          d \in 1..Len(appState.schedule) }

PageInit ==
  /\ skills = <<>>
  /\ settings = defaultAppState.settings
  /\ pc = "idle"
  /\ remainingHours = <<>>
  /\ totalMinutesPerSkill = <<>>
  /\ dates = <<>>
  /\ dateIdx = 1
  /\ dayIndex = 0
  /\ generatedSchedule = <<>>
  /\ blocks = <<>>
  /\ dailyAllocation = <<>>
  /\ totalAllocatedToday = 0
  /\ currentTime = 0
  /\ skillQueue = <<>>
  /\ queueIndex = 0
  /\ uuid = 1
  /\ result = NoResult
  /\ appState = defaultAppState
  /\ toast = "none"
  /\ events = 0
  /\ calls = 0
  /\ caller = "page"
  /\ lastCall = NoCall

Init == DirectInit \/ PageInit

Next ==
  \/ \E values \in SkillFormValues : addSkill(values)
  \/ \E k \in 1..MaxSkills : k <= Len(appState.skills) /\ removeSkill(appState.skills[k].id)
  \/ handleGenerateNoSkills
  \/ \E values \in SettingsFormValues : handleGenerateCall(values)
  \/ handleGenerateStore
  \/ handleGenerateCatch
  \/ \E liveTime \in LiveTimes, liveDate \in LiveDates : tick(liveTime, liveDate)
  \/ \E box \in Checkboxes : toggleTaskCompletion(box[1], box[2])
  \/ generateScheduleStep

\* generateSchedule called directly on every skills list and settings, and
\* the page from its default state with its handlers run in any order.
Spec == Init /\ [][Next]_vars

\* The calls whose termination is checked: skills of 3 h at High and of
\* 0.3 h at Low, blocks of 50 minutes with breaks of 10, windows that are
\* empty, short and long, no lunch or a lunch early in the window.
LiveSkillLists ==
  { sk \in SkillLists :
      \A i \in 1..Len(sk) :
        <<sk[i].priority, sk[i].estHours>> \in {<<"High", 30>>, <<"Low", 3>>} }
LiveSettings ==
  { st \in SettingsSet :
      /\ st.workBlockMins = 50
      /\ st.endTime \in {<<9, 0>>, <<9, 58>>, <<17, 0>>}
      /\ st.lunch \in {<<>>, <<[start |-> <<9, 30>>, duration |-> 60]>>} }

LiveInit ==
  /\ \E sk \in LiveSkillLists, st \in LiveSettings : CallState(sk, st)
  /\ appState = defaultAppState
  /\ toast = "none"
  /\ events = 0
  /\ calls = 1
  /\ caller = "direct"
  /\ lastCall = NoCall

\* generateSchedule is synchronous: once called it keeps running, its next
\* step is taken whenever there is one.
LiveSpec ==
  LiveInit /\ [][generateScheduleStep]_vars /\ WF_vars(generateScheduleStep)

(***************************************************************************)
(* Properties of generateSchedule.                                         *)
(***************************************************************************)
Returned == pc = "returned"
Finished == pc \in {"returned", "threw"}

StartOf(b) == timeToMinutes(b.start)
EndOf(b) == timeToMinutes(b.end)

\* The work minutes of the skill with this id over a whole schedule.
WorkMinutesOfDay(day, id) ==
  SumSeq([k \in 1..Len(day.blocks) |->
            IF day.blocks[k].type = "work" /\ day.blocks[k].skillId = id
              THEN day.blocks[k].minutes ELSE 0])
WorkMinutes(schedule, id) ==
  SumSeq([d \in 1..Len(schedule) |-> WorkMinutesOfDay(schedule[d], id)])

\* The blocks of a day, in order, partition [windowStart, windowEnd).
Partitions(bs) ==
  /\ Len(bs) > 0
  /\ StartOf(bs[1]) = windowStart
  /\ \A k \in 1..(Len(bs) - 1) : EndOf(bs[k]) = StartOf(bs[k + 1])
  /\ \A j, k \in 1..Len(bs) : j < k => EndOf(bs[j]) <= StartOf(bs[k])
  /\ EndOf(bs[Len(bs)]) = windowEnd

\* C1: every day of the returned schedule partitions [windowStart, windowEnd)
\* exactly: first block at windowStart, each block starting where the previous
\* one ends, no overlap, last block ending at windowEnd.
C1_DaysPartitionWindow ==
  Returned => \A d \in 1..Len(result.schedule) : Partitions(result.schedule[d].blocks)

\* C2: over the whole schedule no skill is given more work minutes than
\* estHours * 60 plus 5 minutes of rounding slack.
C2_WorkWithinEstimate ==
  \A i \in 1..Len(skills) :
    WorkMinutes(generatedSchedule, skills[i].id) <= EstMinutes(skills[i]) + 5

\* C2 witness: a returned schedule in which a skill got more than its estimate.
C2_Witness ==
  /\ Returned
  /\ \E i \in 1..Len(skills) :
       WorkMinutes(result.schedule, skills[i].id) > EstMinutes(skills[i])

\* C3: at every point of generateSchedule each skill's remaining-minutes
\* counter is >= 0.
C3_RemainingNeverNegative ==
  pc \notin {"start", "idle"} => \A i \in 1..Len(skills) : remainingHours[i] >= 0

\* A block without its id.
Shape(b) == [start |-> b.start, end |-> b.end, type |-> b.type,
             minutes |-> b.minutes, skillId |-> b.skillId]
Shapes(bs) == [k \in 1..Len(bs) |-> Shape(bs[k])]
WorkBlocksOf(bs) == SelectSeq(bs, LAMBDA b : b.type = "work")

ScenarioA ==
  /\ Len(skills) = 1
  /\ skills[1].priority = "High" /\ skills[1].estHours = 10
  /\ settings.mode = "Daily" /\ settings.dailyHours = 10
  /\ settings.startTime = <<9, 0>> /\ settings.endTime = <<17, 0>>
  /\ settings.workBlockMins = 50 /\ settings.breakMins = 10
  /\ settings.lunch = <<>>

\* C4 as stated: in Scenario A the single day has exactly one work block,
\* 50 minutes at 09:00-09:50, and every other block is buffer.
C4_ScenarioA_OneWorkBlock ==
  (Returned /\ ScenarioA) =>
    /\ Len(result.schedule) = 1
    /\ LET bs == result.schedule[1].blocks
       IN /\ Len(WorkBlocksOf(bs)) = 1
          /\ WorkBlocksOf(bs)[1].start = <<9, 0>>
          /\ WorkBlocksOf(bs)[1].end = <<9, 50>>
          /\ WorkBlocksOf(bs)[1].minutes = 50
          /\ \A k \in 1..Len(bs) : bs[k].type \in {"work", "buffer"}

\* C4 amended: in Scenario A the single day is a 50-minute work block at
\* 09:00-09:50, a 10-minute break at 09:50-10:00, a second work block of the
\* remaining 10 minutes at 10:00-10:10, and buffer for the rest of the window.
C4_ScenarioA_TwoWorkBlocks ==
  (Returned /\ ScenarioA) =>
    /\ Len(result.schedule) = 1
    /\ Shapes(result.schedule[1].blocks) =
         << [start |-> <<9, 0>>, end |-> <<9, 50>>, type |-> "work",
             minutes |-> 50, skillId |-> skills[1].id],
            [start |-> <<9, 50>>, end |-> <<10, 0>>, type |-> "break",
             minutes |-> 10, skillId |-> 0],
            [start |-> <<10, 0>>, end |-> <<10, 10>>, type |-> "work",
             minutes |-> 10, skillId |-> skills[1].id],
            [start |-> <<10, 10>>, end |-> <<17, 0>>, type |-> "buffer",
             minutes |-> 410, skillId |-> 0] >>

C4_Witness == Returned /\ ScenarioA

\* Scenario B with the High skill at position h and the Low skill at l.
ScenarioB(h, l) ==
  /\ Len(skills) = 2 /\ h # l
  /\ skills[h].priority = "High" /\ EstMinutes(skills[h]) >= 180
  /\ skills[l].priority = "Low" /\ EstMinutes(skills[l]) >= 60
  /\ settings.mode = "Daily" /\ settings.dailyHours = 40
  /\ settings.startTime = <<9, 0>> /\ settings.endTime = <<13, 0>>
  /\ settings.workBlockMins = 60 /\ settings.breakMins = 0
  /\ settings.lunch = <<>>

\* C5: in Scenario B the High skill's work blocks total 180 minutes and the
\* Low skill's 60 minutes.
C5_ScenarioB_ThreeToOne ==
  \A h, l \in 1..Len(skills) :
    (Returned /\ ScenarioB(h, l)) =>
      /\ WorkMinutes(result.schedule, skills[h].id) = 180
      /\ WorkMinutes(result.schedule, skills[l].id) = 60

C5_Witness == Returned /\ \E h, l \in 1..Len(skills) : ScenarioB(h, l)

LunchInWindow ==
  /\ settings.lunch # <<>>
  /\ timeToMinutes(settings.lunch[1].start) >= timeToMinutes(settings.startTime)
  /\ timeToMinutes(settings.lunch[1].start) < timeToMinutes(settings.endTime)

LunchBlocks(bs) == SelectSeq(bs, LAMBDA b : b.type = "lunch")

\* C6: when lunch is configured and starts inside the window, every produced
\* day has exactly one lunch block, spanning [lunchStart, lunchStart + duration)
\* with minutes = duration.
C6_ExactlyOneLunch ==
  LunchInWindow =>
    \A d \in 1..Len(generatedSchedule) :
      LET ls == LunchBlocks(generatedSchedule[d].blocks)
      IN /\ Len(ls) = 1
         /\ StartOf(ls[1]) = timeToMinutes(settings.lunch[1].start)
         /\ EndOf(ls[1]) =
              timeToMinutes(settings.lunch[1].start) + settings.lunch[1].duration
         /\ ls[1].minutes = settings.lunch[1].duration

\* C6 witness: a returned day whose lunch was emitted inside the block loop
\* (work goes on after the lunch block).
C6_Witness ==
  /\ Returned /\ LunchInWindow
  /\ \E d \in 1..Len(result.schedule) :
       LET bs == result.schedule[d].blocks
       IN \E j, k \in 1..Len(bs) :
            /\ bs[j].type = "lunch" /\ bs[k].type = "work"
            /\ StartOf(bs[k]) >= EndOf(bs[j])

EndAfterStart == timeToMinutes(settings.endTime) > timeToMinutes(settings.startTime)
DatesNonEmpty == settings.mode = "Daily" \/ settings.startDate <= settings.endDate
LunchDuration == IF settings.lunch # <<>> THEN settings.lunch[1].duration ELSE 0
MonthlyNoRoom ==
  /\ settings.mode = "Monthly"
  /\ timeToMinutes(settings.endTime) - timeToMinutes(settings.startTime)
       - LunchDuration <= 0

\* C7: with a valid window and date range, generateSchedule throws the
\* empty-schedule error exactly when no date produced a day, never returns an
\* empty schedule, and throws it for zero skills and for a Monthly window no
\* longer than the lunch.
C7_EmptyScheduleError ==
  (Finished /\ EndAfterStart /\ DatesNonEmpty) =>
    /\ result.kind \in {"ok", "EmptySchedule"}
    /\ result.kind = "EmptySchedule" <=> Len(generatedSchedule) = 0
    /\ result.kind = "ok" => Len(result.schedule) > 0
    /\ Len(skills) = 0 => result.kind = "EmptySchedule"
    /\ MonthlyNoRoom => result.kind = "EmptySchedule"

\* C7 witness: skills were supplied, and the Monthly window leaves no room.
C7_Witness ==
  /\ Finished /\ EndAfterStart /\ DatesNonEmpty
  /\ Len(skills) > 0 /\ MonthlyNoRoom
  /\ result.kind = "EmptySchedule"

\* C8: with endTime <= startTime and a non-empty date sequence,
\* generateSchedule throws the invalid-window error and returns no schedule,
\* in both modes and for every skills list.
C8_InvalidWindowError ==
  (~EndAfterStart /\ DatesNonEmpty) =>
    /\ ~Returned
    /\ Len(generatedSchedule) = 0
    /\ Finished => result.kind = "InvalidWindow" /\ result.schedule = <<>>

\* C8 witness: no skills at all, and still the window error.
C8_Witness ==
  /\ Finished /\ ~EndAfterStart /\ DatesNonEmpty
  /\ Len(skills) = 0
  /\ result.kind = "InvalidWindow"

\* C9: in Monthly mode with endDate < startDate generateSchedule throws the
\* invalid-range error before any day is processed, whatever the window and
\* the skills; in Daily mode the dates never cause that error.
C9_InvalidRangeError ==
  /\ (settings.mode = "Monthly" /\ settings.endDate < settings.startDate) =>
       /\ pc \in {"start", "threw"}
       /\ Len(generatedSchedule) = 0 /\ blocks = <<>>
       /\ Finished => result.kind = "InvalidRange"
  /\ settings.mode = "Daily" => result.kind # "InvalidRange"

\* C9 witness: the range error with an invalid window and no skills.
C9_Witness ==
  /\ Finished
  /\ settings.mode = "Monthly" /\ settings.endDate < settings.startDate
  /\ ~EndAfterStart /\ Len(skills) = 0
  /\ result.kind = "InvalidRange"

(***************************************************************************)
(* Properties of the page.                                                 *)
(***************************************************************************)
\* A step of the Generate handler.
GenerateStep ==
  handleGenerateNoSkills \/ \E values \in SettingsFormValues : handleGenerateCall(values)

\* C10: with an empty skills list the Generate handler does not call
\* generateSchedule and leaves the stored settings, schedule and summary (the
\* whole stored state) as they were.
C10_NoSkillsNoCall ==
  [][(Len(appState.skills) = 0 /\ GenerateStep) =>
       /\ calls' = calls /\ pc' = "idle"
       /\ appState' = appState
       /\ toast' = "No Skills"]_vars

\* C10 witness: Generate was rejected for want of skills while a schedule
\* from an earlier generation is stored.
C10_Witness ==
  /\ pc = "idle" /\ toast = "No Skills"
  /\ Len(appState.skills) = 0
  /\ appState.schedule # <<>> /\ appState.summary # <<>>
  /\ calls = 1

(***************************************************************************)
(* Two calls of generateSchedule.                                          *)
(***************************************************************************)
\* A block, a day, a schedule without the generated block ids.
WithoutId(b) == [f \in (DOMAIN b) \ {"id"} |-> b[f]]
DayWithoutIds(day) ==
  [date |-> day.date, blocks |-> [k \in 1..Len(day.blocks) |-> WithoutId(day.blocks[k])]]
ScheduleWithoutIds(schedule) ==
  [d \in 1..Len(schedule) |-> DayWithoutIds(schedule[d])]

\* The call that has just finished had the arguments of the call before it.
SameArgumentsAsLastCall ==
  /\ Finished /\ caller = "page"
  /\ lastCall.result.kind # "none"
  /\ lastCall.skills = skills
  /\ lastCall.settings = settings

\* C11: two calls of generateSchedule with the same skills and settings (and
\* the same current date) have the same outcome: the same error, or
\* schedules and summaries that are equal in everything but the generated
\* block ids.
C11_SameInputsSameSchedule ==
  SameArgumentsAsLastCall =>
    /\ result.kind = lastCall.result.kind
    /\ result.summary = lastCall.result.summary
    /\ ScheduleWithoutIds(result.schedule) = ScheduleWithoutIds(lastCall.result.schedule)

\* C11 witness: a second call with the arguments of the first has returned a
\* schedule in which two skills have work blocks, under fresh block ids.
C11_Witness ==
  /\ SameArgumentsAsLastCall
  /\ Returned
  /\ Len(skills) = 2
  /\ \A i \in 1..Len(skills) : WorkMinutes(result.schedule, skills[i].id) > 0
  /\ result.schedule # lastCall.result.schedule

(***************************************************************************)
(* The summary.                                                            *)
(***************************************************************************)
\* C12: the summary has one entry per input skill, in input order, and each
\* entry's minutes is the sum of the minutes of the schedule's work blocks
\* with that skillId (0 for a skill that was never scheduled).
C12_SummaryPerSkill ==
  Returned =>
    /\ Len(result.summary) = Len(skills)
    /\ \A i \in 1..Len(skills) :
         /\ result.summary[i].skillId = skills[i].id
         /\ result.summary[i].skillName = skills[i].name
         /\ result.summary[i].minutes = WorkMinutes(result.schedule, skills[i].id)

\* C12 witness: a returned summary of two skills, the lighter one first in
\* the input, in which one skill has work blocks and the other has none.
C12_Witness ==
  /\ Returned
  /\ Len(skills) = 2
  /\ skills[1].priority = "Low" /\ skills[2].priority = "High"
  /\ \E i, j \in 1..2 :
       /\ WorkMinutes(result.schedule, skills[i].id) = 0
       /\ result.summary[i].minutes = 0
       /\ WorkMinutes(result.schedule, skills[j].id) > 0

(***************************************************************************)
(* The day in progress: what each skill was promised and what it got.      *)
(***************************************************************************)
InDay == pc \in {"while", "endday"}

\* The work minutes the skill at position i has been given today.
GivenToday(i) == WorkMinutesOfDay([blocks |-> blocks], skills[i].id)

\* The skill's daily target and remaining minutes as they were when the day
\* began: every work block takes its minutes off both.
TargetToday(i) == dailyAllocation[i] + GivenToday(i)
RemainingAtDayStart(i) == remainingHours[i] + GivenToday(i)
ActiveToday == {i \in 1..Len(skills) : RemainingAtDayStart(i) > 0}

\* Today's active skills have one priority, and each had at least its
\* proportional share (allocatable / number of active skills) remaining.
EqualPrioritiesAmpleRemaining ==
  /\ \A i, j \in ActiveToday : skills[i].priority = skills[j].priority
  /\ \A i \in ActiveToday :
       RemainingAtDayStart(i) * Cardinality(ActiveToday) >= allocatableTimeForDay

Distance(a, b) == IF a >= b THEN a - b ELSE b - a

\* C13 as stated: with equal priorities and ample remaining minutes, the work
\* minutes one skill is given on a day differ from every other's by at most 5.
C13_EqualWorkMinutes ==
  (DayLoopOver /\ EqualPrioritiesAmpleRemaining) =>
    \A i, j \in ActiveToday : Distance(GivenToday(i), GivenToday(j)) <= 5

\* C13 amended: with equal priorities and ample remaining minutes, the daily
\* targets computed at the start of the day (dailyAllocation) differ from one
\* another by at most 5 minutes.
C13_EqualDailyTargets ==
  (InDay /\ EqualPrioritiesAmpleRemaining) =>
    \A i, j \in ActiveToday : Distance(TargetToday(i), TargetToday(j)) <= 5

\* C13 witness: a finished day of two such skills with equal positive
\* targets, one of which got over 5 minutes more than the other.
C13_Witness ==
  /\ DayLoopOver /\ EqualPrioritiesAmpleRemaining
  /\ Cardinality(ActiveToday) = 2
  /\ \A i \in ActiveToday : TargetToday(i) > 0
  /\ \E i, j \in ActiveToday : GivenToday(i) > GivenToday(j) + 5

(***************************************************************************)
(* The days of a schedule, one after another.                              *)
(***************************************************************************)
\* What is left of the skill's estimate after the first d days of schedule.
RemainingAfter(schedule, d, i) ==
  EstMinutes(skills[i]) - WorkMinutes(SubSeq(schedule, 1, d), skills[i].id)

\* C14: once a skill's remaining minutes are <= 0 at the end of a day, no
\* later day has a work block for that skill.
C14_FinishedSkillStaysOut ==
  \A i \in 1..Len(skills) :
    \A d \in 1..Len(generatedSchedule) :
      RemainingAfter(generatedSchedule, d, i) <= 0 =>
        \A e \in (d + 1)..Len(generatedSchedule) :
          WorkMinutesOfDay(generatedSchedule[e], skills[i].id) = 0

\* C14 witness: a returned schedule whose first day exhausts one skill and
\* whose second day has work blocks, all of another skill.
C14_Witness ==
  /\ Returned
  /\ Len(result.schedule) >= 2
  /\ \E i, j \in 1..Len(skills) :
       /\ RemainingAfter(result.schedule, 1, i) <= 0
       /\ WorkMinutesOfDay(result.schedule[1], skills[i].id) > 0
       /\ WorkMinutesOfDay(result.schedule[2], skills[i].id) = 0
       /\ WorkMinutesOfDay(result.schedule[2], skills[j].id) > 0

\* The date loop is at a date of a Monthly range whose window has room for
\* work, and no skill has minutes remaining.
AtExhaustedDate ==
  /\ pc = "for" /\ dateIdx <= Len(dates)
  /\ settings.mode = "Monthly"
  /\ EndAfterStart /\ ~MonthlyNoRoom
  /\ \A i \in 1..Len(skills) : remainingHours[i] <= 0

\* The date loop was left before the end of the range.
StoppedEarly ==
  /\ pc \in {"summary", "returned", "threw"}
  /\ settings.mode = "Monthly"
  /\ dateIdx <= Len(dates)
  /\ EndAfterStart

LeavesDateLoop ==
  /\ pc' = "summary"
  /\ dateIdx' = dateIdx
  /\ generatedSchedule' = generatedSchedule

StoppedAtFirstExhaustedDate ==
  /\ \A i \in 1..Len(skills) : remainingHours[i] <= 0
  /\ \A d \in 1..Len(generatedSchedule) :
       /\ generatedSchedule[d].date = dates[d]
       /\ \E i \in 1..Len(skills) : RemainingAfter(generatedSchedule, d - 1, i) > 0
  /\ \A d \in 1..Len(generatedSchedule), e \in dateIdx..Len(dates) :
       generatedSchedule[d].date # dates[e]
  /\ (Finished /\ Len(generatedSchedule) >= 1) => result.kind = "ok"

\* C15: in Monthly mode the date loop stops, rather than skips, at the first
\* date on which no skill has remaining minutes above 0: the loop is left at
\* that date, that date and every later one are absent from the schedule,
\* every earlier date had a skill with minutes remaining, and the call
\* succeeds when at least one earlier day was produced.
C15_StopsAtExhaustedDate ==
  /\ [](StoppedEarly => StoppedAtFirstExhaustedDate)
  /\ [][AtExhaustedDate => LeavesDateLoop]_vars

\* C15 witness: a returned Monthly schedule of one day for a range of two
\* dates, the loop having stopped at the second date.
C15_Witness ==
  /\ Returned /\ StoppedEarly
  /\ Len(dates) = 2 /\ dateIdx = 2
  /\ Len(result.schedule) = 1

(***************************************************************************)
(* The round-robin queue.                                                  *)
(***************************************************************************)
WeightOf(i) == PRIORITY_WEIGHTS[skills[i].priority]

\* q holds the skills with minutes remaining, by descending weight, skills of
\* equal weight in input order.
SortedActive(q) ==
  /\ Len(q) = Cardinality({i \in 1..Len(skills) : remainingHours[i] > 0})
  /\ \A k \in 1..Len(q) : q[k] \in 1..Len(skills) /\ remainingHours[q[k]] > 0
  /\ \A a, b \in 1..Len(q) :
       a < b => \/ WeightOf(q[a]) > WeightOf(q[b])
                \/ WeightOf(q[a]) = WeightOf(q[b]) /\ q[a] < q[b]

\* The queue as the day's block loop starts (nothing handed out yet).
QueueOrder ==
  (pc = "while" /\ queueIndex = 0) =>
    IF dayIndex = 0
      THEN SortedActive(skillQueue)
      ELSE SortedActive(<<skillQueue[Len(skillQueue)]>> \o Front(skillQueue))

\* With two or more skills active on the second day, the first work blocks
\* of the first and second day belong to different skills.
FirstBlocksDiffer ==
  (/\ Len(generatedSchedule) >= 2
   /\ Cardinality({i \in 1..Len(skills) :
                     RemainingAfter(generatedSchedule, 1, i) > 0}) >= 2
   /\ WorkBlocksOf(generatedSchedule[1].blocks) # <<>>
   /\ WorkBlocksOf(generatedSchedule[2].blocks) # <<>>)
  => WorkBlocksOf(generatedSchedule[1].blocks)[1].skillId
       # WorkBlocksOf(generatedSchedule[2].blocks)[1].skillId

\* C16: on the first scheduled day the queue is the active skills by
\* descending weight, ties in input order; on every later day it is that
\* day's sorted order rotated left by one, so that with at least two active
\* skills the first work block of day index 1 goes to a different skill than
\* the first work block of day index 0.
C16_RotatingStart == QueueOrder /\ FirstBlocksDiffer

(***************************************************************************)
(* Termination of generateSchedule.                                        *)
(***************************************************************************)
\* How many queue positions from queueIndex on are skipped before a skill
\* with daily target above 0 comes up.
RECURSIVE SkipsAhead(_)
SkipsAhead(k) ==
  IF k >= Len(skillQueue) \/ dailyAllocation[skillQueue[((queueIndex + k) % Len(skillQueue)) + 1]] > 0
    THEN k
    ELSE SkipsAhead(k + 1)

\* A pass of the block loop that stays in the loop moves the cursor forward,
\* or skips a skill and is one position closer to a skill that is not skipped.
BlockLoopAdvances ==
  (pc = "while" /\ pc' = "while") =>
    \/ currentTime' > currentTime
    \/ /\ currentTime' = currentTime
       /\ SkipsAhead(0) > 0
       /\ SkipsAhead(0) < Len(skillQueue)
       /\ SkipsAhead(0)' = SkipsAhead(0) - 1

\* The date loop goes through dates once, in order: a day's work starts at
\* the current date only, and the loop comes back to its head one date on.
DateLoopAdvances ==
  /\ pc = "start" => pc' # "start" /\ (pc' = "for" => dateIdx' = 1)
  /\ (pc = "for" /\ pc' \in {"while", "summary"}) => dateIdx' = dateIdx
  /\ (pc \in {"for", "while", "endday"} /\ pc' = "for") =>
       dateIdx' = dateIdx + 1 /\ dateIdx <= Len(dates)
  /\ (pc \in {"while", "endday"} /\ pc' \in {"while", "endday"}) => dateIdx' = dateIdx

\* C17: a call of generateSchedule terminates (returns or throws): every
\* pass of the block loop strictly advances the time cursor or skips a skill,
\* at most queue-length - 1 skips in a row, and the date loop visits each
\* date once.
C17_Terminates ==
  /\ (pc = "start") ~> Finished
  /\ [][BlockLoopAdvances /\ DateLoopAdvances]_vars

\* C17 witness: a call has returned after its block loop ran through a lunch,
\* a skipped skill and a block for each of two skills.
C17_Witness ==
  /\ Returned
  /\ \E d \in 1..Len(result.schedule) :
       /\ LunchBlocks(result.schedule[d].blocks) # <<>>
       /\ \A i \in 1..2 : i <= Len(skills)
                            /\ WorkMinutesOfDay(result.schedule[d], skills[i].id) > 0
  /\ queueIndex > Len(WorkBlocksOf(blocks))

(***************************************************************************)
(* The days of the returned schedule.                                      *)
(***************************************************************************)
\* C18: a returned Daily schedule has exactly one day; the days of a returned
\* Monthly schedule are the first k dates of startDate..endDate, 1 <= k <=
\* the length of the range, ascending and consecutive, none twice, none
\* left out.
C18_DatesArePrefixOfRange ==
  Returned =>
    /\ settings.mode = "Daily" =>
         Len(result.schedule) = 1 /\ result.schedule[1].date = Today
    /\ settings.mode = "Monthly" =>
         /\ Len(result.schedule) >= 1
         /\ Len(result.schedule) <= settings.endDate - settings.startDate + 1
         /\ \A d \in 1..Len(result.schedule) :
              result.schedule[d].date = settings.startDate + (d - 1)

\* C18 witness: a returned Monthly schedule of two days.
C18_Witness ==
  /\ Returned
  /\ settings.mode = "Monthly"
  /\ Len(result.schedule) = 2
  /\ result.schedule[2].date = settings.endDate

\* A minute of the day lies inside one of the blocks.
Covered(bs, minute) ==
  \E k \in 1..Len(bs) : StartOf(bs[k]) <= minute /\ minute < EndOf(bs[k])

\* No minute of [windowStart, windowEnd) is outside every block. The first
\* uncovered minute, if there is one, is windowStart or the end of a block,
\* so these are the minutes looked at.
NoGaps(bs) ==
  /\ Covered(bs, timeToMinutes(settings.startTime))
  /\ \A k \in 1..Len(bs) :
       EndOf(bs[k]) < timeToMinutes(settings.endTime) => Covered(bs, EndOf(bs[k]))

\* C19: in every day of the returned schedule every minute of
\* [windowStart, windowEnd) is covered by at least one block.
C19_NoGaps ==
  Returned => \A d \in 1..Len(result.schedule) : NoGaps(result.schedule[d].blocks)

\* C19 witness: a returned day whose block loop stopped before the lunch and
\* before windowEnd: buffer, the backfilled lunch, buffer to the end.
C19_Witness ==
  /\ Returned
  /\ \E d \in 1..Len(result.schedule) :
       LET bs == result.schedule[d].blocks
       IN /\ Len(bs) >= 4
          /\ bs[Len(bs) - 2].type = "buffer"
          /\ bs[Len(bs) - 1].type = "lunch"
          /\ bs[Len(bs)].type = "buffer"
          /\ EndOf(bs[Len(bs)]) = timeToMinutes(settings.endTime)
          /\ LunchBlocks(blocks) = <<>>

(***************************************************************************)
(* The round robin within a day.                                           *)
(***************************************************************************)
\* This step of the block loop pushes a work block.
EmitsWorkBlock ==
  /\ pc = "while"
  /\ Len(blocks') > Len(blocks)
  /\ blocks'[Len(blocks) + 1].type = "work"

\* The skill of today's last work block so far.
PreviousSkillId == WorkBlocksOf(blocks)[Len(WorkBlocksOf(blocks))].skillId

\* The pushed block goes to a skill whose daily target is above 0, and not
\* to the skill of the previous work block when another skill has a target
\* above 0 as well.
RoundRobinStep ==
  LET pushed == blocks'[Len(blocks) + 1]
  IN /\ \E i \in 1..Len(skills) :
          skills[i].id = pushed.skillId /\ dailyAllocation[i] > 0
     /\ (/\ WorkBlocksOf(blocks) # <<>>
         /\ \E q \in 1..Len(skills) :
              skills[q].id # PreviousSkillId /\ dailyAllocation[q] > 0)
        => pushed.skillId # PreviousSkillId

\* C20: within a day the work blocks are handed out round-robin: when a work
\* block was pushed while at least two skills had a daily target above 0, the
\* next work block of that day belongs to another skill, and a skill whose
\* daily target is <= 0 gets no block.
C20_RoundRobin == [][EmitsWorkBlock => RoundRobinStep]_vars

\* C20 witness: a day in which two skills took turns until one had no target
\* left and was skipped, so that the other got two work blocks in a row.
C20_Witness ==
  /\ InDay
  /\ LET ws == WorkBlocksOf(blocks)
     IN /\ Len(ws) >= 4
        /\ ws[1].skillId # ws[2].skillId
        /\ ws[2].skillId # ws[3].skillId
        /\ ws[Len(ws) - 1].skillId = ws[Len(ws)].skillId
  /\ queueIndex > Len(WorkBlocksOf(blocks))

(***************************************************************************)
(* Breaks.                                                                 *)
(***************************************************************************)
BreakBlocks(bs) == SelectSeq(bs, LAMBDA b : b.type = "break")

\* The breaks of a day: breakMins long, right after a work block, over by
\* windowEnd.
BreaksWellPlaced(bs) ==
  \A k \in 1..Len(bs) :
    bs[k].type = "break" =>
      /\ settings.breakMins > 0
      /\ bs[k].minutes = settings.breakMins
      /\ EndOf(bs[k]) - StartOf(bs[k]) = settings.breakMins
      /\ \E j \in 1..Len(bs) : bs[j].type = "work" /\ EndOf(bs[j]) = StartOf(bs[k])
      /\ EndOf(bs[k]) <= timeToMinutes(settings.endTime)

\* This step of the block loop pushes a break block.
EmitsBreak ==
  /\ pc = "while"
  /\ Len(blocks') > Len(blocks)
  /\ blocks'[Len(blocks')].type = "break"

\* The break comes with the work block pushed in the same step, and some
\* skill still has minutes of today's target left after that block.
BreakStep ==
  /\ settings.breakMins > 0
  /\ Len(blocks') = Len(blocks) + 2
  /\ blocks'[Len(blocks) + 1].type = "work"
  /\ blocks'[Len(blocks) + 1].end = blocks'[Len(blocks) + 2].start
  /\ totalAllocatedToday' > 0
  /\ \E i \in 1..Len(skills) : dailyAllocation'[i] > 0

\* C21: every break block is breakMins long, starts at the end of a work
\* block of its day and ends at or before windowEnd; no break is pushed when
\* breakMins = 0 or when nothing is left of the day's allocation after the
\* work block before it.
C21_Breaks ==
  /\ [](Returned => \A d \in 1..Len(result.schedule) :
                      BreaksWellPlaced(result.schedule[d].blocks))
  /\ [][EmitsBreak => BreakStep]_vars

\* C21 witness: a returned day with a break after one work block and none
\* after another that left room for it.
C21_Witness ==
  /\ Returned
  /\ settings.breakMins > 0
  /\ \E d \in 1..Len(result.schedule) :
       LET bs == result.schedule[d].blocks
       IN /\ BreakBlocks(bs) # <<>>
          /\ \E j \in 1..Len(bs) :
               /\ bs[j].type = "work"
               /\ EndOf(bs[j]) + settings.breakMins <= timeToMinutes(settings.endTime)
               /\ \A k \in 1..Len(bs) :
                    bs[k].type = "break" => StartOf(bs[k]) # EndOf(bs[j])

\* The time of day in seconds of an "HH:MM" or "HH:mm:ss" value.
Seconds(t) == t[1] * 3600 + t[2] * 60 + (IF Len(t) = 3 THEN t[3] ELSE 0)

\* The tick at time t on date d leaves the schedule as the claim says: the
\* work blocks of the day dated d that end by t are completed and otherwise
\* as they were, every other block is as it was.
TickMarks(t, d) ==
  /\ (appState.schedule = <<>>) = (appState'.schedule = <<>>)
  /\ Len(appState'.schedule) = Len(appState.schedule)
  /\ \A n \in 1..Len(appState.schedule) :
       LET day == appState.schedule[n]
           after == appState'.schedule[n]
       IN /\ after.date = day.date
          /\ Len(after.blocks) = Len(day.blocks)
          /\ \A k \in 1..Len(day.blocks) :
               IF /\ day.date = d
                  /\ day.blocks[k].type = "work"
                  /\ Seconds(day.blocks[k].end) <= Seconds(t)
                 THEN /\ after.blocks[k].completed
                      /\ after.blocks[k] = [day.blocks[k] EXCEPT !.completed = TRUE]
                 ELSE after.blocks[k] = day.blocks[k]

\* C22: after a timer tick at time t on date d every work block of the day
\* dated d that ends by t is completed, whether or not the user had set it
\* back before the tick; the blocks of other days, the blocks that are not
\* work and the work blocks that end after t are as they were before the tick.
C22_TickCompletesPastDue ==
  [][\A t \in LiveTimes, d \in LiveDates : tick(t, d) => TickMarks(t, d)]_vars

\* Two skills, one generation and no click: the timer alone has completed a
\* work block that ended by the live time, next to a work block of the same
\* day that ends later and a day with another date, both left as generated.
C22_Witness ==
  /\ pc = "idle" /\ appState.schedule # <<>>
  /\ events = 3 /\ calls = 1 /\ Len(appState.skills) = 2
  /\ appState.live.currentStation # "Not Started"
  /\ \E n \in 1..Len(appState.schedule) :
       /\ appState.schedule[n].date = appState.live.date
       /\ \E k, j \in 1..Len(appState.schedule[n].blocks) :
            /\ appState.schedule[n].blocks[k].type = "work"
            /\ Seconds(appState.schedule[n].blocks[k].end) <= Seconds(appState.live.time)
            /\ appState.schedule[n].blocks[k].completed
            /\ appState.schedule[n].blocks[j].type = "work"
            /\ Seconds(appState.schedule[n].blocks[j].end) > Seconds(appState.live.time)
            /\ ~appState.schedule[n].blocks[j].completed
  /\ \E n \in 1..Len(appState.schedule) :
       appState.schedule[n].date # appState.live.date

C24_EveryDayHasWork ==
  Returned =>
    \A d \in 1..Len(result.schedule) :
      \E k \in 1..Len(result.schedule[d].blocks) :
        result.schedule[d].blocks[k].type = "work"

(***************************************************************************)
(* The work minutes of a day against the day's allocatable time and the    *)
(* skills' daily targets.                                                  *)
(***************************************************************************)
WorkToday == SumSeq([i \in 1..Len(skills) |-> GivenToday(i)])

WorkWithinAllocatable == InDay => WorkToday <= allocatableTimeForDay
WorkWithinTargets == InDay => \A i \in 1..Len(skills) : GivenToday(i) <= TargetToday(i)

MapsSetUp == pc \notin {"start", "idle"}

Balanced ==
  MapsSetUp => \A i \in 1..Len(skills) :
                 remainingHours[i] + totalMinutesPerSkill[i] = EstMinutes(skills[i])

\* The pushed work block's minutes go off its skill's remaining minutes and
\* onto its running total, and the other skills' entries stay.
MovesMinutes ==
  LET pushed == blocks'[Len(blocks) + 1]
  IN \A i \in 1..Len(skills) :
       IF skills[i].id = pushed.skillId
         THEN /\ remainingHours'[i] = remainingHours[i] - pushed.minutes
              /\ totalMinutesPerSkill'[i] = totalMinutesPerSkill[i] + pushed.minutes
         ELSE /\ remainingHours'[i] = remainingHours[i]
              /\ totalMinutesPerSkill'[i] = totalMinutesPerSkill[i]

\* A step inside generateSchedule, after the maps are set up.
MapStep ==
  IF EmitsWorkBlock THEN MovesMinutes
  ELSE MapsSetUp => UNCHANGED <<remainingHours, totalMinutesPerSkill>>

\* C26: at every point of generateSchedule and for every skill, remaining
\* minutes + minutes assigned so far = estHours * 60; every pushed work block
\* takes its minutes off the skill's remaining minutes and adds them to its
\* running total, and no other step changes either map.
C26_MapsBalanced == []Balanced /\ [][MapStep]_vars

\* C26 witness: in the block loop, after a work block, one skill with
\* minutes assigned and minutes remaining, another with none assigned yet.
C26_Witness ==
  /\ pc = "while"
  /\ WorkBlocksOf(blocks) # <<>>
  /\ \E i, j \in 1..Len(skills) :
       /\ totalMinutesPerSkill[i] > 0 /\ remainingHours[i] > 0
       /\ totalMinutesPerSkill[j] = 0 /\ remainingHours[j] = EstMinutes(skills[j])

(***************************************************************************)
(* The Generate action and the stored state.                               *)
(***************************************************************************)
\* The Generate action is under way: from the click to the end of the catch
\* block, the successful return excepted.
GenerateUnderWay ==
  \/ pc = "idle" /\ pc' = "start"
  \/ caller = "page" /\ pc \notin {"idle", "returned"}

\* A schedule as generated: no block completed.
AsGenerated(schedule) ==
  [d \in 1..Len(schedule) |->
     [schedule[d] EXCEPT !.blocks =
        [k \in 1..Len(schedule[d].blocks) |->
           [schedule[d].blocks[k] EXCEPT !.completed = FALSE]]]]

\* The stored settings, schedule or summary are replaced by this step.
Replaces ==
  \/ appState'.settings # appState.settings
  \/ appState'.summary # appState.summary
  \/ AsGenerated(appState'.schedule) # AsGenerated(appState.schedule)

\* The step stores the three results of the successful call together.
StoresTogether ==
  /\ pc = "returned" /\ caller = "page" /\ result.kind = "ok"
  /\ appState'.settings = settings
  /\ appState'.schedule = result.schedule
  /\ appState'.summary = result.summary
  /\ appState'.skills = appState.skills /\ appState'.live = appState.live

\* C27: from the click on Generate to the end of a failed generation the
\* stored state is unchanged, the stored settings, schedule and summary are
\* all kept; they are replaced only at the end of a successful generation,
\* all three together.
C27_FailedGenerateKeepsState ==
  [][/\ GenerateUnderWay => appState' = appState
     /\ Replaces => StoresTogether]_vars

\* C27 witness: a generation has just failed while the settings, schedule and
\* summary of an earlier successful generation, with other settings, are
\* stored.
C27_Witness ==
  /\ pc = "idle" /\ toast = "Generation Failed"
  /\ lastCall.result.kind \notin {"ok", "none"}
  /\ appState.schedule # <<>> /\ appState.summary # <<>>
  /\ appState.settings # lastCall.settings
  /\ appState.settings # defaultAppState.settings

====
